---- MODULE Spec2Model ----
(***************************************************************************)
(* Recipe API: RecipeViewSet and TagViewSet of app/recipe/views.py over a  *)
(* store of recipes and tags.  Query strings are sequences of characters,  *)
(* parsed as the views parse them (str.split(',') and int()).              *)
(***************************************************************************)
EXTENDS Integers, Sequences, FiniteSets, TLC

VARIABLES recipes, tags, createdBy, nextRecipeId, nextTagId, resp, procs, upload

vars == <<recipes, tags, createdBy, nextRecipeId, nextTagId, resp, procs, upload>>

(* ------------------------------ bounds -------------------------------- *)

MaxRecipes == 2
MaxTags == 2
MaxQsLen == 3
MaxParamLen == 2

(* ------------------------------ domains ------------------------------- *)

Users == {"u1", "u2"}
Names == {"Dessert", "Vegan"}
Titles == {"Sample recipe title", "New title"}
NoValue == "<absent>"

\* collation rank of the tag names used (order_by('-name'))
NameRank(n) == IF n = "Dessert" THEN 1 ELSE 2

QsChars == {"0", "1", "2", ",", "-", "a", " ", "_", "U+0661"}

RECURSIVE StringsUpTo(_)
StringsUpTo(n) ==
    IF n = 0 THEN {<<>>}
    ELSE LET shorter == StringsUpTo(n - 1)
         IN  shorter \cup {Append(s, c) : s \in {t \in shorter : Len(t) = n - 1}, c \in QsChars}

\* request.query_params.get(name): the parameter is absent or a string
NoParam == [present |-> FALSE, value |-> <<>>]
Param(s) == [present |-> TRUE, value |-> s]

(* ------------------------- str.split and int -------------------------- *)

\* str.split(','): the tokens between commas; "" gives [""]
RECURSIVE Split(_)
Split(s) ==
    IF \A i \in 1..Len(s) : s[i] # ","
    THEN <<s>>
    ELSE LET k == CHOOSE i \in 1..Len(s) : s[i] = "," /\ \A j \in 1..(i - 1) : s[j] # ","
         IN  <<SubSeq(s, 1, k - 1)>> \o Split(SubSeq(s, k + 1, Len(s)))

\* the decimal digits int() accepts: the ASCII ones and those of other
\* scripts, of which two stand here, each named by its code point
\* (ARABIC-INDIC DIGIT ONE, FULLWIDTH DIGIT ONE)
IsDigit(c) == c \in {"0", "1", "2", "3", "4", "5", "6", "7", "8", "9", "U+0661", "U+FF11"}

DigitVal(c) ==
    CASE c = "0" -> 0 [] c = "1" -> 1 [] c = "2" -> 2 [] c = "3" -> 3 [] c = "4" -> 4
      [] c = "5" -> 5 [] c = "6" -> 6 [] c = "7" -> 7 [] c = "8" -> 8 [] c = "9" -> 9
      [] c = "U+0661" -> 1 [] c = "U+FF11" -> 1

RECURSIVE DigitsVal(_)
DigitsVal(s) == IF s = <<>> THEN 0 ELSE 10 * DigitsVal(SubSeq(s, 1, Len(s) - 1)) + DigitVal(s[Len(s)])

\* int() ignores whitespace around the literal
IsSpace(c) == c \in {" "}

RECURSIVE Strip(_)
Strip(s) ==
    IF s = <<>> THEN s
    ELSE IF IsSpace(s[1]) THEN Strip(Tail(s))
    ELSE IF IsSpace(s[Len(s)]) THEN Strip(SubSeq(s, 1, Len(s) - 1))
    ELSE s

\* digits, with single underscores allowed between two digits
GroupedDigits(s) ==
    /\ s # <<>>
    /\ \A i \in 1..Len(s) : IsDigit(s[i]) \/ s[i] = "_"
    /\ IsDigit(s[1]) /\ IsDigit(s[Len(s)])
    /\ \A i \in 1..(Len(s) - 1) : ~(s[i] = "_" /\ s[i + 1] = "_")

Unsigned(s) == IF s # <<>> /\ s[1] \in {"-", "+"} THEN Tail(s) ELSE s

\* int(str): whitespace, an optional sign, then digits; else ValueError
IntOk(s) == GroupedDigits(Unsigned(Strip(s)))

IntVal(s) ==
    LET t == Strip(s)
        n == DigitsVal(SelectSeq(Unsigned(t), IsDigit))
    IN  IF t[1] = "-" THEN 0 - n ELSE n

(* ------------------------- sequence helpers --------------------------- *)

Max(S) == CHOOSE x \in S : \A y \in S : y <= x
Min(S) == CHOOSE x \in S : \A y \in S : x <= y

\* the rows of a table in primary-key order
RECURSIVE RowsOf(_)
RowsOf(S) == IF S = {} THEN <<>> ELSE <<Min(S)>> \o RowsOf(S \ {Min(S)})

RECURSIVE Repeat(_, _)
Repeat(x, n) == IF n = 0 THEN <<>> ELSE <<x>> \o Repeat(x, n - 1)

Range(s) == {s[i] : i \in 1..Len(s)}

NoDuplicates(s) == \A i, j \in 1..Len(s) : i # j => s[i] # s[j]

\* variant: the rows of the join as they come, duplicates kept
DistinctKeepAll(rows) == rows

\* QuerySet.distinct(): SELECT DISTINCT keeps one row of each value
RECURSIVE Distinct(_)
Distinct(rows) ==
    IF rows = <<>> THEN <<>>
    ELSE LET front == Distinct(SubSeq(rows, 1, Len(rows) - 1))
             last == rows[Len(rows)]
         IN  IF last \in Range(front) THEN front ELSE Append(front, last)

(* --------------------- RecipeViewSet.get_queryset --------------------- *)

\* _params_to_ints: [int(str_id) for str_id in qs.split(',')]
ParamsToIntsOk(qs) == LET tokens == Split(qs) IN \A i \in 1..Len(tokens) : IntOk(tokens[i])
ParamsToInts(qs) == LET tokens == Split(qs) IN [i \in 1..Len(tokens) |-> IntVal(tokens[i])]

\* queryset.filter(tags__id__in=tag_ids): the join with the recipe-tag
\* relation gives one row per matching association
RECURSIVE FilterTagsIdIn(_, _)
FilterTagsIdIn(rows, tag_ids) ==
    IF rows = <<>> THEN <<>>
    ELSE Repeat(Head(rows), Cardinality(recipes[Head(rows)].tags \cap Range(tag_ids)))
         \o FilterTagsIdIn(Tail(rows), tag_ids)

\* variant: no restriction to the requesting user
FilterRecipeAnyUser(rows, user) == rows

\* queryset.filter(user=self.request.user)
FilterRecipeUser(rows, user) == SelectSeq(rows, LAMBDA r : recipes[r].user = user)

\* queryset.order_by('-id')
RECURSIVE OrderByIdDesc(_)
OrderByIdDesc(rows) ==
    IF rows = <<>> THEN <<>>
    ELSE LET m == Max(Range(rows))
         IN  SelectSeq(rows, LAMBDA r : r = m) \o OrderByIdDesc(SelectSeq(rows, LAMBDA r : r # m))

\* `if tags:` is false for an absent parameter and for the empty string
TagsGiven(tagsParam) == tagsParam.present /\ tagsParam.value # <<>>

\* get_queryset raises ValueError out of int() on a token that is no integer
RecipeQuerysetRaises(tagsParam) == TagsGiven(tagsParam) /\ ~ParamsToIntsOk(tagsParam.value)

RecipeQueryset(user, tagsParam) ==
    LET all == RowsOf(DOMAIN recipes)
        filtered == IF TagsGiven(tagsParam)
                    THEN FilterTagsIdIn(all, ParamsToInts(tagsParam.value))
                    ELSE all
    IN  Distinct(OrderByIdDesc(FilterRecipeUser(filtered, user)))

(* ----------------------- TagViewSet.get_queryset ---------------------- *)

\* int(self.request.query_params.get('assigned_only', 0))
AssignedOnlyRaises(param) == param.present /\ ~IntOk(param.value)
AssignedOnly(param) == IF param.present THEN IntVal(param.value) ELSE 0

RecipesWithTag(t) == {r \in DOMAIN recipes : t \in recipes[r].tags}

\* queryset.filter(recipe__isnull=False): inner join, one row per association
RECURSIVE FilterRecipeNotNull(_)
FilterRecipeNotNull(rows) ==
    IF rows = <<>> THEN <<>>
    ELSE Repeat(Head(rows), Cardinality(RecipesWithTag(Head(rows))))
         \o FilterRecipeNotNull(Tail(rows))

\* variant: the outer join without its IS NULL condition
FilterRecipeIsNullKeepAll(rows) == rows

\* queryset.filter(recipe__isnull=True): outer join, the rows with no recipe
FilterRecipeIsNull(rows) == SelectSeq(rows, LAMBDA t : RecipesWithTag(t) = {})

\* variant: no restriction to the requesting user
FilterTagAnyUser(rows, user) == rows

\* queryset.filter(user=self.request.user)
FilterTagUser(rows, user) == SelectSeq(rows, LAMBDA t : tags[t].user = user)

\* queryset.order_by('-name'): rows of equal name come in an order the
\* database chooses, so the result is one of a set of orderings
RECURSIVE OrderingsByNameDesc(_, _)
OrderingsByNameDesc(rows, I) ==
    IF I = {} THEN {<<>>}
    ELSE LET top == {i \in I : \A j \in I : NameRank(tags[rows[j]].name) <= NameRank(tags[rows[i]].name)}
         IN  UNION {{<<rows[i]>> \o s : s \in OrderingsByNameDesc(rows, I \ {i})} : i \in top}

OrderByNameDesc(rows) == OrderingsByNameDesc(rows, 1..Len(rows))

TagQuerysets(user, param) ==
    LET all == RowsOf(DOMAIN tags)
        assigned_only == AssignedOnly(param)
        filtered == IF assigned_only = 1 THEN FilterRecipeNotNull(all)
                    ELSE IF assigned_only = 2 THEN FilterRecipeIsNull(all)
                    ELSE all
    IN  {Distinct(s) : s \in OrderByNameDesc(FilterTagUser(filtered, user))}

(* ------------------------------ requests ------------------------------ *)

\* every string of the alphabet up to the bound: the inputs the properties
\* of the two list views range over
QueryStrings == StringsUpTo(MaxQsLen)
ParamStrings == StringsUpTo(MaxParamLen)

\* the query strings the list requests of the state machine are sent with
TagsParams ==
    {NoParam, Param(<<>>), Param(<<"1">>), Param(<<"2">>), Param(<<"1", ",", "2">>),
     Param(<<"0">>), Param(<<"-", "1">>), Param(<<"a">>), Param(<<"1", ",">>)}
AssignedParams ==
    {NoParam, Param(<<"0">>), Param(<<"1">>), Param(<<"2">>), Param(<<"1", "0">>),
     Param(<<"-", "1">>), Param(<<"a">>), Param(<<>>)}

\* the lists of tag names a payload carries: empty, one name, two names
TagSpecs == {<<>>} \cup {<<a>> : a \in Names} \cup {<<a, b>> : a \in Names, b \in Names}

\* a recipe payload: title (required on create and on a full update), an
\* optional list of tag names, and possibly a `user` key
RecipePayloads ==
    {[title |-> t, hasTags |-> h, tags |-> ns, user |-> u] :
        t \in Titles \cup {NoValue}, h \in BOOLEAN, ns \in TagSpecs, u \in Users \cup {NoValue}}

ValidRecipePayloads == {p \in RecipePayloads : p.hasTags \/ p.tags = <<>>}

HTTP_200_OK == 200
HTTP_201_CREATED == 201
HTTP_204_NO_CONTENT == 204
HTTP_400_BAD_REQUEST == 400
HTTP_404_NOT_FOUND == 404
HTTP_500_INTERNAL_SERVER_ERROR == 500

\* a response, with the request it answers: the operation, the requesting
\* user, the id in the URL and (for a recipe create or update that went
\* through) the tag names sent
NoTagsSent == [hasTags |-> FALSE, tags |-> <<>>]

Response(op, user, target, status, error, body) ==
    [op |-> op, user |-> user, target |-> target, status |-> status, error |-> error, body |-> body,
     sent |-> NoTagsSent]

Saved(op, user, target, status, payload) ==
    [op |-> op, user |-> user, target |-> target, status |-> status, error |-> "none", body |-> <<target>>,
     sent |-> [hasTags |-> payload.hasTags, tags |-> payload.tags]]

NoResponse == Response("none", NoValue, 0, 0, "none", <<>>)

\* an exception no handler catches: the request ends as a server error
Unhandled(op, user, target, exc) == Response(op, user, target, HTTP_500_INTERNAL_SERVER_ERROR, exc, <<>>)
NotFound(op, user, target) == Response(op, user, target, HTTP_404_NOT_FOUND, "NotFound", <<>>)
BadRequest(op, user, target) == Response(op, user, target, HTTP_400_BAD_REQUEST, "ValidationError", <<>>)

(* ------------------------ tag-name resolution ------------------------- *)

\* the user's tags of a name
TagsNamed(T, user, name) == {t \in DOMAIN T : T[t].user = user /\ T[t].name = name}

InsertTag(T, id, user, name) ==
    [t \in DOMAIN T \cup {id} |-> IF t = id THEN [user |-> user, name |-> name] ELSE T[t]]

\* variant: a tag is inserted whether or not the name exists
GetOrCreateAlwaysCreates(T, nid, user, name) ==
    {[tags |-> InsertTag(T, nid, user, name), next |-> nid + 1, tag |-> nid]}

\* find-or-create of one name, as one step: the outcomes are the tag table,
\* the next tag id and the tag resolved
GetOrCreate(T, nid, user, name) ==
    IF TagsNamed(T, user, name) # {}
    THEN {[tags |-> T, next |-> nid, tag |-> t] : t \in TagsNamed(T, user, name)}
    ELSE {[tags |-> InsertTag(T, nid, user, name), next |-> nid + 1, tag |-> nid]}

\* the names resolved in order, each tag added to the recipe's tag set
RECURSIVE GetOrCreateTags(_, _, _, _)
GetOrCreateTags(T, nid, user, names) ==
    IF names = <<>> THEN {[tags |-> T, next |-> nid, attached |-> {}]}
    ELSE UNION {{[tags |-> rest.tags, next |-> rest.next, attached |-> {one.tag} \cup rest.attached] :
                    rest \in GetOrCreateTags(one.tags, one.next, user, Tail(names))} :
                one \in GetOrCreate(T, nid, user, Head(names))}

NewNames(user, names) == {n \in Range(names) : TagsNamed(tags, user, n) = {}}

(* ------------------------- s3_image_rekognition ----------------------- *)

\* what a call of the storage or label-detection client can do: return,
\* raise NoCredentialsError, or raise another error of the client library
ClientOutcomes == {"ok", "NoCredentialsError", "ClientError"}

\* s3_image_rekognition(user_email, filename, image, recipe_id): only
\* NoCredentialsError is caught and turned into an error result; any other
\* exception of upload_fileobj or detect_labels leaves the function
s3_image_rekognition(recipe_id, s3, rekognition) ==
    IF s3 = "NoCredentialsError"
    THEN [kind |-> "error", error |-> "Credentials not available", body |-> <<>>]
    ELSE IF s3 # "ok"
    THEN [kind |-> "raised", error |-> s3, body |-> <<>>]
    ELSE IF rekognition = "NoCredentialsError"
    THEN [kind |-> "error", error |-> "Credentials not available for Rekognition", body |-> <<>>]
    ELSE IF rekognition # "ok"
    THEN [kind |-> "raised", error |-> rekognition, body |-> <<>>]
    ELSE [kind |-> "result", error |-> "none", body |-> <<recipe_id>>]

\* the trace of the upload_image request in progress: where it stands, who
\* sent it for which recipe, whether the recipe is the sender's, whether it
\* carried an image file, whether serializer.save() ran, and the
\* collaborator calls
NoOutcome == [kind |-> "pending", error |-> "none", body |-> <<>>]
NoUpload ==
    [phase |-> "idle", user |-> NoValue, recipe |-> 0, owned |-> FALSE, hasFile |-> FALSE,
     saved |-> FALSE, calls |-> <<>>]

(* ------------------------------- state -------------------------------- *)

Init ==
    /\ recipes = <<>>
    /\ tags = <<>>
    /\ createdBy = <<>>
    /\ nextRecipeId = 1
    /\ nextTagId = 1
    /\ resp = NoResponse
    /\ procs = <<>>
    /\ upload = NoUpload

PutRecipe(R, id, rec) == [r \in DOMAIN R \cup {id} |-> IF r = id THEN rec ELSE R[r]]
Without(F, id) == [x \in DOMAIN F \ {id} |-> F[x]]

(* --------------------------- RecipeViewSet ---------------------------- *)

\* list: GET /recipes/?tags=...
RecipeListResponse(user, tagsParam) ==
    IF RecipeQuerysetRaises(tagsParam)
    THEN Unhandled("recipe_list", user, 0, "ValueError")
    ELSE Response("recipe_list", user, 0, HTTP_200_OK, "none", RecipeQueryset(user, tagsParam))

RecipeList(user, tagsParam) ==
    /\ resp' = RecipeListResponse(user, tagsParam)
    /\ UNCHANGED <<recipes, tags, createdBy, nextRecipeId, nextTagId, procs, upload>>

\* get_object(): the record of that id in get_queryset(), else Http404;
\* get_queryset() reads the `tags` parameter on the detail routes too
RecipeObjectFound(user, id, tagsParam) == id \in Range(RecipeQueryset(user, tagsParam))

\* retrieve: GET /recipes/<id>/
RecipeRetrieve(user, id, tagsParam) ==
    /\ resp' = IF RecipeQuerysetRaises(tagsParam)
               THEN Unhandled("recipe_retrieve", user, id, "ValueError")
               ELSE IF RecipeObjectFound(user, id, tagsParam)
               THEN Response("recipe_retrieve", user, id, HTTP_200_OK, "none", <<id>>)
               ELSE NotFound("recipe_retrieve", user, id)
    /\ UNCHANGED <<recipes, tags, createdBy, nextRecipeId, nextTagId, procs, upload>>

\* variant: the owner taken from the payload's `user` key when it has one
PerformCreateUserFromPayload(user, payload) == IF payload.user # NoValue THEN payload.user ELSE user

\* perform_create: serializer.save(user=self.request.user)
PerformCreateUser(user, payload) == user

\* create: POST /recipes/
RecipeCreate(user, payload) ==
    /\ nextRecipeId <= MaxRecipes
    /\ nextTagId + Cardinality(NewNames(user, payload.tags)) <= MaxTags + 1
    /\ IF payload.title = NoValue
       THEN /\ resp' = BadRequest("recipe_create", user, 0)
            /\ UNCHANGED <<recipes, tags, createdBy, nextRecipeId, nextTagId>>
       ELSE \E out \in GetOrCreateTags(tags, nextTagId, user, payload.tags) :
            /\ recipes' = PutRecipe(recipes, nextRecipeId,
                                    [user |-> PerformCreateUser(user, payload),
                                     title |-> payload.title,
                                     tags |-> out.attached,
                                     image |-> FALSE])
            /\ createdBy' = PutRecipe(createdBy, nextRecipeId, user)
            /\ tags' = out.tags
            /\ nextTagId' = out.next
            /\ nextRecipeId' = nextRecipeId + 1
            /\ resp' = Saved("recipe_create", user, nextRecipeId, HTTP_201_CREATED, payload)
    /\ UNCHANGED <<procs, upload>>

\* variant: the resolved tags added to those the recipe had
MergedTags(old, payload, attached) == old \cup attached

\* the tags of an updated recipe: replaced by the resolved ones when the
\* payload has a tag list, else kept
UpdatedTags(old, payload, attached) == IF payload.hasTags THEN attached ELSE old

\* update / partial_update: PUT or PATCH /recipes/<id>/
RecipeUpdate(user, id, tagsParam, partial, payload) ==
    /\ nextTagId + Cardinality(NewNames(user, payload.tags)) <= MaxTags + 1
    /\ IF RecipeQuerysetRaises(tagsParam)
       THEN /\ resp' = Unhandled("recipe_update", user, id, "ValueError")
            /\ UNCHANGED <<recipes, tags, nextTagId>>
       ELSE IF ~RecipeObjectFound(user, id, tagsParam)
       THEN /\ resp' = NotFound("recipe_update", user, id)
            /\ UNCHANGED <<recipes, tags, nextTagId>>
       ELSE IF ~partial /\ payload.title = NoValue
       THEN /\ resp' = BadRequest("recipe_update", user, id)
            /\ UNCHANGED <<recipes, tags, nextTagId>>
       ELSE \E out \in GetOrCreateTags(tags, nextTagId, user, payload.tags) :
            /\ recipes' = [recipes EXCEPT
                              ![id].title = IF payload.title = NoValue THEN @ ELSE payload.title,
                              ![id].tags = UpdatedTags(@, payload, out.attached)]
            /\ tags' = out.tags
            /\ nextTagId' = out.next
            /\ resp' = Saved("recipe_update", user, id, HTTP_200_OK, payload)
    /\ UNCHANGED <<createdBy, nextRecipeId, procs, upload>>

\* destroy: DELETE /recipes/<id>/
RecipeDelete(user, id, tagsParam) ==
    /\ IF RecipeQuerysetRaises(tagsParam)
       THEN /\ resp' = Unhandled("recipe_delete", user, id, "ValueError")
            /\ UNCHANGED <<recipes, createdBy>>
       ELSE IF ~RecipeObjectFound(user, id, tagsParam)
       THEN /\ resp' = NotFound("recipe_delete", user, id)
            /\ UNCHANGED <<recipes, createdBy>>
       ELSE /\ recipes' = Without(recipes, id)
            /\ createdBy' = Without(createdBy, id)
            /\ resp' = Response("recipe_delete", user, id, HTTP_204_NO_CONTENT, "none", <<>>)
    /\ UNCHANGED <<tags, nextRecipeId, nextTagId, procs, upload>>

\* serializer.save() of the image serializer: the image reference is stored
SaveImage(R, id) == [R EXCEPT ![id].image = TRUE]

\* upload_image: POST /recipes/<id>/upload-image/, up to the call of
\* s3_image_rekognition, which blocks on the network while other requests
\* are served
\*   valid: serializer.is_valid(); hasFile: request.FILES.get('image')
UploadImage(user, id, tagsParam, valid, hasFile) ==
    /\ upload.phase = "idle"
    /\ LET request == [NoUpload EXCEPT !.phase = "done", !.user = user, !.recipe = id,
                                       !.owned = (id \in DOMAIN recipes /\ recipes[id].user = user),
                                       !.hasFile = hasFile]
       IN  IF RecipeQuerysetRaises(tagsParam)
           THEN /\ resp' = Unhandled("upload_image", user, id, "ValueError")
                /\ upload' = request
                /\ UNCHANGED recipes
           ELSE IF ~RecipeObjectFound(user, id, tagsParam)
           THEN /\ resp' = NotFound("upload_image", user, id)
                /\ upload' = request
                /\ UNCHANGED recipes
           ELSE IF ~valid
           THEN /\ resp' = BadRequest("upload_image", user, id)
                /\ upload' = request
                /\ UNCHANGED recipes
           ELSE IF ~hasFile
           THEN /\ recipes' = SaveImage(recipes, id)
                /\ resp' = Unhandled("upload_image", user, id, "UnboundLocalError")
                /\ upload' = [request EXCEPT !.saved = TRUE]
           ELSE /\ recipes' = SaveImage(recipes, id)
                /\ upload' = [request EXCEPT !.phase = "calling", !.saved = TRUE,
                                 !.calls = <<[recipe |-> id, saved |-> recipes'[id].image,
                                              outcome |-> NoOutcome]>>]
                /\ UNCHANGED resp
    /\ UNCHANGED <<tags, createdBy, nextRecipeId, nextTagId, procs>>

\* upload_image, from the return of s3_image_rekognition to the response
UploadImageReturn(s3, rekognition) ==
    /\ upload.phase = "calling"
    /\ LET result == s3_image_rekognition(upload.recipe, s3, rekognition)
       IN  /\ upload' = [upload EXCEPT !.phase = "done", !.calls[1].outcome = result]
           /\ resp' = IF result.kind = "raised"
                      THEN Unhandled("upload_image", upload.user, upload.recipe, result.error)
                      ELSE IF result.kind = "error"
                      THEN Response("upload_image", upload.user, upload.recipe,
                                    HTTP_500_INTERNAL_SERVER_ERROR, result.error, <<>>)
                      ELSE Response("upload_image", upload.user, upload.recipe, HTTP_200_OK,
                                    "none", result.body)
    /\ UNCHANGED <<recipes, tags, createdBy, nextRecipeId, nextTagId, procs>>

(* ----------------------------- TagViewSet ----------------------------- *)

\* list: GET /tags/?assigned_only=...
TagListResponses(user, param) ==
    IF AssignedOnlyRaises(param)
    THEN {Unhandled("tag_list", user, 0, "ValueError")}
    ELSE {Response("tag_list", user, 0, HTTP_200_OK, "none", body) : body \in TagQuerysets(user, param)}

TagList(user, param) ==
    /\ resp' \in TagListResponses(user, param)
    /\ UNCHANGED <<recipes, tags, createdBy, nextRecipeId, nextTagId, procs, upload>>

\* get_object() of the tag views; get_queryset() reads `assigned_only` on
\* the detail routes too
TagObjectFound(user, id, param) == \E rows \in TagQuerysets(user, param) : id \in Range(rows)

\* update / partial_update: PUT or PATCH /tags/<id>/
TagUpdate(user, id, param, name) ==
    /\ IF AssignedOnlyRaises(param)
       THEN /\ resp' = Unhandled("tag_update", user, id, "ValueError")
            /\ UNCHANGED tags
       ELSE IF ~TagObjectFound(user, id, param)
       THEN /\ resp' = NotFound("tag_update", user, id)
            /\ UNCHANGED tags
       ELSE /\ tags' = [tags EXCEPT ![id].name = name]
            /\ resp' = Response("tag_update", user, id, HTTP_200_OK, "none", <<id>>)
    /\ UNCHANGED <<recipes, createdBy, nextRecipeId, nextTagId, procs, upload>>

\* destroy: DELETE /tags/<id>/ removes the tag and its recipe associations
TagDelete(user, id, param) ==
    /\ IF AssignedOnlyRaises(param)
       THEN /\ resp' = Unhandled("tag_delete", user, id, "ValueError")
            /\ UNCHANGED <<recipes, tags>>
       ELSE IF ~TagObjectFound(user, id, param)
       THEN /\ resp' = NotFound("tag_delete", user, id)
            /\ UNCHANGED <<recipes, tags>>
       ELSE /\ tags' = Without(tags, id)
            /\ recipes' = [r \in DOMAIN recipes |-> [recipes[r] EXCEPT !.tags = @ \ {id}]]
            /\ resp' = Response("tag_delete", user, id, HTTP_204_NO_CONTENT, "none", <<>>)
    /\ UNCHANGED <<createdBy, nextRecipeId, nextTagId, procs, upload>>

(* ------------- concurrent requests resolving tag names ---------------- *)

\* Requests run as processes whose steps interleave.  Tag-name resolution
\* is a lookup followed by an insert when the lookup found nothing; no
\* uniqueness of (user, name) is enforced on the tag table.
NumProcs == 2
Procs == 1..NumProcs

Idle == [pc |-> "idle", user |-> NoValue, recipe |-> 0, names |-> <<>>, named |-> {}, fresh |-> {}, found |-> 0]

InitConc ==
    /\ recipes = <<>>
    /\ tags = <<>>
    /\ createdBy = <<>>
    /\ nextRecipeId = 1
    /\ nextTagId = 1
    /\ resp = NoResponse
    /\ procs = [p \in Procs |-> Idle]
    /\ upload = NoUpload

\* a create request starts: the recipe row is inserted, its tags come next
BeginCreate(p, user, payload) ==
    /\ procs[p].pc = "idle"
    /\ payload.title # NoValue
    /\ nextRecipeId <= MaxRecipes
    /\ recipes' = PutRecipe(recipes, nextRecipeId,
                            [user |-> PerformCreateUser(user, payload), title |-> payload.title,
                             tags |-> {}, image |-> FALSE])
    /\ createdBy' = PutRecipe(createdBy, nextRecipeId, user)
    /\ nextRecipeId' = nextRecipeId + 1
    /\ procs' = [procs EXCEPT ![p] = [pc |-> "lookup", user |-> user, recipe |-> nextRecipeId,
                                      names |-> payload.tags, named |-> Range(payload.tags),
                                      fresh |-> NewNames(user, payload.tags), found |-> 0]]
    /\ UNCHANGED <<tags, nextTagId, resp, upload>>

\* an update request that supplies tags starts: the recipe's tags are cleared
BeginUpdate(p, user, id, tagsParam, payload) ==
    /\ procs[p].pc = "idle"
    /\ ~RecipeQuerysetRaises(tagsParam)
    /\ RecipeObjectFound(user, id, tagsParam)
    /\ payload.hasTags
    /\ recipes' = [recipes EXCEPT ![id].tags = {}]
    /\ procs' = [procs EXCEPT ![p] = [pc |-> "lookup", user |-> user, recipe |-> id,
                                      names |-> payload.tags, named |-> Range(payload.tags),
                                      fresh |-> NewNames(user, payload.tags), found |-> 0]]
    /\ UNCHANGED <<tags, createdBy, nextRecipeId, nextTagId, resp, upload>>

\* the lookup of the next name: an existing tag of the user, or none (0)
Lookup(p) ==
    /\ procs[p].pc = "lookup"
    /\ procs[p].names # <<>>
    /\ LET matches == TagsNamed(tags, procs[p].user, Head(procs[p].names))
       IN  \E t \in (IF matches = {} THEN {0} ELSE matches) :
              procs' = [procs EXCEPT ![p].found = t, ![p].pc = "attach"]
    /\ UNCHANGED <<recipes, tags, createdBy, nextRecipeId, nextTagId, resp, upload>>

\* the tag found is added to the recipe; when none was found one is inserted
Attach(p) ==
    /\ procs[p].pc = "attach"
    /\ IF procs[p].found = 0
       THEN /\ nextTagId <= MaxTags
            /\ tags' = InsertTag(tags, nextTagId, procs[p].user, Head(procs[p].names))
            /\ nextTagId' = nextTagId + 1
            /\ recipes' = [recipes EXCEPT ![procs[p].recipe].tags = @ \cup {nextTagId}]
       ELSE /\ recipes' = [recipes EXCEPT ![procs[p].recipe].tags = @ \cup {procs[p].found}]
            /\ UNCHANGED <<tags, nextTagId>>
    /\ procs' = [procs EXCEPT ![p].names = Tail(@), ![p].found = 0, ![p].pc = "lookup"]
    /\ UNCHANGED <<createdBy, nextRecipeId, resp, upload>>

\* all names resolved: the request is answered
Finish(p) ==
    /\ procs[p].pc = "lookup"
    /\ procs[p].names = <<>>
    /\ procs' = [procs EXCEPT ![p].pc = "done"]
    /\ resp' = Response("recipe_save", procs[p].user, procs[p].recipe, HTTP_200_OK, "none", <<procs[p].recipe>>)
    /\ UNCHANGED <<recipes, tags, createdBy, nextRecipeId, nextTagId, upload>>

(* --------------------------- specification ---------------------------- *)

RecipeIds == 1..MaxRecipes
TagIds == 1..MaxTags

\* payloads that exercise the tags of a recipe: the title given or not and
\* a list of tag names or none
TagPayloads ==
    {p \in ValidRecipePayloads : p.title \in {NoValue, "Sample recipe title"} /\ p.user = NoValue}

\* payloads that exercise the plain fields: no tags
FieldPayloads == {p \in ValidRecipePayloads : ~p.hasTags}

EmptyPayload == [title |-> NoValue, hasTags |-> FALSE, tags |-> <<>>, user |-> NoValue]

\* a create is sent with its title, or without title and tags (refused)
CreateInputs == {p \in TagPayloads : p.title # NoValue \/ p = EmptyPayload}

\* an update of a recipe the request reaches is a PUT with the title or a
\* PATCH without it, with any tags, or an empty PUT (refused); an update
\* that does not reach the recipe is an empty PATCH
UpdateInputs(user, id, tagsParam) ==
    IF ~RecipeQuerysetRaises(tagsParam) /\ RecipeObjectFound(user, id, tagsParam)
    THEN {[partial |-> (p.title = NoValue), payload |-> p] : p \in TagPayloads}
            \cup {[partial |-> FALSE, payload |-> EmptyPayload]}
    ELSE {[partial |-> TRUE, payload |-> EmptyPayload]}

\* the query strings the detail requests are sent with: none, a filter
\* that selects, a filter that does not parse
DetailTagsParams == {NoParam, Param(<<"2">>), Param(<<"a">>)}
DetailAssignedParams == {NoParam, Param(<<"2">>), Param(<<"a">>)}

\* requests are sent one at a time: the next one when the response to the
\* last has been delivered
Ready == resp = NoResponse

Deliver ==
    /\ resp # NoResponse
    /\ resp' = NoResponse
    /\ upload' = IF upload.phase = "done" THEN NoUpload ELSE upload
    /\ UNCHANGED <<recipes, tags, createdBy, nextRecipeId, nextTagId, procs>>

\* the requests that build the store of recipes and tags: every list
\* request, and the detail requests sent without a query string
Next ==
    \/ Ready /\ \E u \in Users, q \in TagsParams : RecipeList(u, q)
    \/ Ready /\ \E u \in Users, id \in RecipeIds : RecipeRetrieve(u, id, NoParam)
    \/ Ready /\ \E u \in Users, p \in CreateInputs : RecipeCreate(u, p)
    \/ Ready /\ \E u \in Users, id \in RecipeIds : \E in \in UpdateInputs(u, id, NoParam) :
          RecipeUpdate(u, id, NoParam, in.partial, in.payload)
    \/ Ready /\ \E u \in Users, id \in RecipeIds : RecipeDelete(u, id, NoParam)
    \/ Ready /\ \E u \in Users, q \in AssignedParams : TagList(u, q)
    \/ Ready /\ \E u \in Users, id \in TagIds, n \in Names : TagUpdate(u, id, NoParam, n)
    \/ Ready /\ \E u \in Users, id \in TagIds : TagDelete(u, id, NoParam)
    \/ Deliver

Spec == Init /\ [][Next]_vars

\* the same requests, the detail requests with and without a query string
NextApi ==
    \/ Ready /\ \E u \in Users, q \in TagsParams : RecipeList(u, q)
    \/ Ready /\ \E u \in Users, id \in RecipeIds, q \in DetailTagsParams : RecipeRetrieve(u, id, q)
    \/ Ready /\ \E u \in Users, p \in CreateInputs : RecipeCreate(u, p)
    \/ Ready /\ \E u \in Users, id \in RecipeIds, q \in DetailTagsParams :
          \E in \in UpdateInputs(u, id, q) : RecipeUpdate(u, id, q, in.partial, in.payload)
    \/ Ready /\ \E u \in Users, id \in RecipeIds, q \in DetailTagsParams : RecipeDelete(u, id, q)
    \/ Ready /\ \E u \in Users, q \in AssignedParams : TagList(u, q)
    \/ Ready /\ \E u \in Users, id \in TagIds, q \in DetailAssignedParams, n \in Names :
          TagUpdate(u, id, q, n)
    \/ Ready /\ \E u \in Users, id \in TagIds, q \in DetailAssignedParams : TagDelete(u, id, q)
    \/ Deliver

SpecApi == Init /\ [][NextApi]_vars

\* the recipe requests that touch the plain fields and the image; an upload
\* waiting for the collaborator leaves the other requests free to run
NextUpload ==
    \/ Ready /\ \E u \in Users, p \in FieldPayloads : RecipeCreate(u, p)
    \/ Ready /\ \E u \in Users, id \in RecipeIds, q \in DetailTagsParams, partial \in BOOLEAN,
                   p \in FieldPayloads : RecipeUpdate(u, id, q, partial, p)
    \/ Ready /\ \E u \in Users, id \in RecipeIds, q \in DetailTagsParams : RecipeDelete(u, id, q)
    \/ Ready /\ \E u \in Users, id \in RecipeIds, q \in DetailTagsParams : RecipeRetrieve(u, id, q)
    \/ Ready /\ \E u \in Users, id \in RecipeIds, q \in DetailTagsParams, valid \in BOOLEAN,
                   hasFile \in BOOLEAN : UploadImage(u, id, q, valid, hasFile)
    \/ Ready /\ \E s3 \in ClientOutcomes, rekognition \in ClientOutcomes :
          UploadImageReturn(s3, rekognition)
    \/ Deliver

SpecUpload == Init /\ [][NextUpload]_vars

\* concurrent create and update requests
NextConc ==
    \/ \E p \in Procs, u \in Users, payload \in CreateInputs : BeginCreate(p, u, payload)
    \/ \E p \in Procs, u \in Users, id \in RecipeIds, q \in DetailTagsParams, payload \in TagPayloads :
          BeginUpdate(p, u, id, q, payload)
    \/ \E p \in Procs : Lookup(p)
    \/ \E p \in Procs : Attach(p)
    \/ \E p \in Procs : Finish(p)

SpecConc == InitConc /\ [][NextConc]_vars

(* ============================ properties ============================== *)

RecipeDetailOps == {"recipe_retrieve", "recipe_update", "recipe_delete"}
TagDetailOps == {"tag_update", "tag_delete"}
Succeeded(r) == r.status \in {HTTP_200_OK, HTTP_201_CREATED, HTTP_204_NO_CONTENT}

(* ------------------------------- C1 ----------------------------------- *)

\* a list response holds only records of the requesting user
C1_ListsOwnOnly ==
    /\ resp.op = "recipe_list" /\ Succeeded(resp)
          => \A i \in 1..Len(resp.body) : recipes[resp.body[i]].user = resp.user
    /\ resp.op = "tag_list" /\ Succeeded(resp)
          => \A i \in 1..Len(resp.body) : tags[resp.body[i]].user = resp.user

\* a request on the id of another user's recipe or tag is answered NotFound
\* and leaves that record as it was
C1_OthersUntouched ==
    /\ \A id \in DOMAIN recipes :
          resp'.op \in RecipeDetailOps /\ resp'.target = id /\ recipes[id].user # resp'.user
             => /\ resp'.status = HTTP_404_NOT_FOUND
                /\ id \in DOMAIN recipes'
                /\ recipes'[id] = recipes[id]
    /\ \A id \in DOMAIN tags :
          resp'.op \in TagDetailOps /\ resp'.target = id /\ tags[id].user # resp'.user
             => /\ resp'.status = HTTP_404_NOT_FOUND
                /\ id \in DOMAIN tags'
                /\ tags'[id] = tags[id]

\* C1: for distinct users A and B, a recipe or tag listing requested by A
\* never contains a record owned by B, and a retrieve, update or delete by A
\* on the id of a recipe of B (an update or delete on the id of a tag of B)
\* yields NotFound and leaves B's record unchanged and present.
C1_Isolation == [](C1_ListsOwnOnly) /\ [][C1_OthersUntouched]_vars

\* what holds of such a request whatever its query string: it is answered
\* NotFound, or fails on a query parameter that does not parse, and the
\* record stays as it was
OthersNeverReached ==
    /\ \A id \in DOMAIN recipes :
          resp'.op \in RecipeDetailOps /\ resp'.target = id /\ recipes[id].user # resp'.user
             => /\ \/ resp'.status = HTTP_404_NOT_FOUND
                   \/ resp'.status = HTTP_500_INTERNAL_SERVER_ERROR /\ resp'.error = "ValueError"
                /\ id \in DOMAIN recipes'
                /\ recipes'[id] = recipes[id]
    /\ \A id \in DOMAIN tags :
          resp'.op \in TagDetailOps /\ resp'.target = id /\ tags[id].user # resp'.user
             => /\ \/ resp'.status = HTTP_404_NOT_FOUND
                   \/ resp'.status = HTTP_500_INTERNAL_SERVER_ERROR /\ resp'.error = "ValueError"
                /\ id \in DOMAIN tags'
                /\ tags'[id] = tags[id]

RecordsIsolated == [](C1_ListsOwnOnly) /\ [][OthersNeverReached]_vars

\* a delete by A of an existing recipe of B was answered NotFound, while B
\* also owns a tag
C1_Witness ==
    /\ resp.op = "recipe_delete"
    /\ resp.status = HTTP_404_NOT_FOUND
    /\ resp.target \in DOMAIN recipes
    /\ recipes[resp.target].user # resp.user
    /\ recipes[resp.target].tags # {}
    /\ \E r \in DOMAIN recipes : recipes[r].user = resp.user

(* ------------------------------- C2 ----------------------------------- *)

\* the decimal form of a tag id, and the comma-separated form of a list
DigitChar(d) ==
    CASE d = 0 -> "0" [] d = 1 -> "1" [] d = 2 -> "2" [] d = 3 -> "3" [] d = 4 -> "4"
      [] d = 5 -> "5" [] d = 6 -> "6" [] d = 7 -> "7" [] d = 8 -> "8" [] d = 9 -> "9"

RECURSIVE Decimal(_)
Decimal(n) == IF n < 10 THEN <<DigitChar(n)>> ELSE Append(Decimal(n \div 10), DigitChar(n % 10))

RECURSIVE CommaSeparated(_)
CommaSeparated(ids) ==
    IF Len(ids) = 1 THEN Decimal(ids[1])
    ELSE Decimal(ids[1]) \o <<",">> \o CommaSeparated(Tail(ids))

\* the non-empty lists of tag ids, of existing tags or not, whose
\* comma-separated form fits the query-string bound, each with that form
FilterIdLists ==
    {f \in {[ids |-> ids, qs |-> CommaSeparated(ids)] :
                ids \in UNION {[1..n -> 1..(MaxTags + 1)] : n \in 1..MaxQsLen}} :
        Len(f.qs) <= MaxQsLen}

StrictlyDescending(s) == \A i, j \in 1..Len(s) : i < j => s[i] > s[j]

OwnRecipes(user) == {r \in DOMAIN recipes : recipes[r].user = user}

\* C2: for every user, store state and non-empty tag filter given as a
\* comma-separated list of tag ids, the recipe listing holds exactly the
\* user's recipes that carry a tag whose id is in the filter, each once,
\* in strictly descending id order; with no filter, all of the user's recipes
\* in that order.
C2_RecipeListing ==
    Ready => \A user \in Users :
       /\ \A f \in FilterIdLists :
             LET r == RecipeListResponse(user, Param(f.qs))
                 body == r.body
             IN  /\ r.status = HTTP_200_OK
                 /\ Range(body) = {x \in OwnRecipes(user) : recipes[x].tags \cap Range(f.ids) # {}}
                 /\ StrictlyDescending(body)
       /\ LET r == RecipeListResponse(user, NoParam)
          IN  /\ r.status = HTTP_200_OK
              /\ Range(r.body) = OwnRecipes(user)
              /\ StrictlyDescending(r.body)

\* a filtered listing was answered with one recipe that carries two tags,
\* to a user who owns two recipes
C2_Witness ==
    /\ resp.op = "recipe_list"
    /\ resp.status = HTTP_200_OK
    /\ Len(resp.body) = 1
    /\ Cardinality(recipes[resp.body[1]].tags) = 2
    /\ Cardinality(OwnRecipes(resp.user)) = 2

(* ------------------------------- C3 ----------------------------------- *)

OwnTags(user) == {t \in DOMAIN tags : tags[t].user = user}
Assigned(t) == \E r \in DOMAIN recipes : t \in recipes[r].tags

\* C3: the tag listing with assigned_only=1 holds only tags with an
\* associated recipe, the listing with assigned_only=2 only tags with none,
\* the two are disjoint and together are the listing with assigned_only=0,
\* all tags of the user, and no listing holds a tag twice.
C3_TagPartition ==
    Ready => \A user \in Users :
       \A all \in TagQuerysets(user, Param(<<"0">>)),
          yes \in TagQuerysets(user, Param(<<"1">>)),
          no \in TagQuerysets(user, Param(<<"2">>)) :
          /\ \A t \in Range(yes) : Assigned(t)
          /\ \A t \in Range(no) : ~Assigned(t)
          /\ Range(yes) \cap Range(no) = {}
          /\ Range(yes) \cup Range(no) = Range(all)
          /\ Range(all) = OwnTags(user)
          /\ NoDuplicates(all) /\ NoDuplicates(yes) /\ NoDuplicates(no)

\* a tag listing was answered with one tag, which is on two recipes, to a
\* user who also owns a tag on no recipe
C3_Witness ==
    /\ resp.op = "tag_list"
    /\ resp.status = HTTP_200_OK
    /\ Len(resp.body) = 1
    /\ Cardinality(RecipesWithTag(resp.body[1])) = 2
    /\ \E t \in OwnTags(resp.user) : ~Assigned(t)

(* ------------------------------- C4 ----------------------------------- *)

Owned(T, user, name) == \E t \in DOMAIN T : T[t].user = user /\ T[t].name = name

\* what resolving `names` for `user` into recipe `rid` leaves behind
C4_Resolved(user, names, rid) ==
    LET added == DOMAIN tags' \ DOMAIN tags
    IN  /\ \A t \in DOMAIN tags : t \in DOMAIN tags' /\ tags'[t] = tags[t]
        /\ Cardinality(added) = Cardinality({n \in Range(names) : ~Owned(tags, user, n)})
        /\ \A t \in added : /\ tags'[t].user = user
                            /\ tags'[t].name \in Range(names)
                            /\ ~Owned(tags, user, tags'[t].name)
        /\ \A n \in Range(names) :
              \E t \in recipes'[rid].tags :
                 /\ tags'[t] = [user |-> user, name |-> n]
                 /\ Owned(tags, user, n) => t \in DOMAIN tags
        /\ \A t \in recipes'[rid].tags : tags'[t].user = user /\ tags'[t].name \in Range(names)
        /\ (\A n \in Range(names) : Cardinality(TagsNamed(tags, user, n)) <= 1)
              => Cardinality(recipes'[rid].tags) = Cardinality(Range(names))

C4_Step ==
    resp'.op \in {"recipe_create", "recipe_update"} /\ Succeeded(resp') /\ resp'.sent.hasTags
       => C4_Resolved(resp'.user, resp'.sent.tags, resp'.target)

\* C4: creating or updating a recipe with a sequence of tag names resolves
\* each name against the requesting user's tags: an existing name reuses
\* the existing record and creates none, a new name creates exactly one tag
\* owned by that user; the number of tags added is the number of distinct
\* supplied names the user did not own, and the recipe ends up associated
\* with a tag for every supplied name and with no other.
C4_TagResolution == [][C4_Step]_vars

\* a second recipe was created with two tags, one of them already on the
\* first recipe
C4_Witness ==
    /\ resp.op = "recipe_create"
    /\ resp.status = HTTP_201_CREATED
    /\ resp.target = 2
    /\ 1 \in DOMAIN recipes
    /\ Cardinality(recipes[2].tags) = 2
    /\ Cardinality(recipes[1].tags) = 1
    /\ recipes[1].tags \subseteq recipes[2].tags
    /\ recipes[1].user = recipes[2].user

(* ------------------------------- C5 ----------------------------------- *)

C5_TagsKept == \A t \in DOMAIN tags : t \in DOMAIN tags' /\ tags'[t] = tags[t]

C5_Step ==
    /\ resp'.op = "recipe_update" /\ Succeeded(resp')
          => LET id == resp'.target
                 names == Range(resp'.sent.tags)
             IN  /\ C5_TagsKept
                 /\ resp'.sent.hasTags =>
                       /\ \A t \in recipes'[id].tags : tags'[t].name \in names
                       /\ \A n \in names : \E t \in recipes'[id].tags : tags'[t].name = n
                       /\ \A t \in recipes[id].tags : tags[t].name \notin names => t \notin recipes'[id].tags
                       /\ names = {} => recipes'[id].tags = {}
                 /\ ~resp'.sent.hasTags => recipes'[id].tags = recipes[id].tags
    /\ resp'.op = "recipe_delete" /\ Succeeded(resp')
          => /\ tags' = tags
             /\ resp'.target \notin DOMAIN recipes'

\* C5: an update of an owned recipe that supplies tags replaces the recipe's
\* tag set by the resolved set (tags attached before and not named are
\* detached), an empty tag list leaves the recipe with no tags, neither
\* such an update nor a delete of the recipe removes a tag record, and an
\* update that supplies no tags leaves the recipe's tag set unchanged.
C5_ReplaceNotMerge == [][C5_Step]_vars

\* an update left a recipe without tags while its owner still has two tags,
\* neither on any recipe
C5_Witness ==
    /\ resp.op = "recipe_update"
    /\ resp.status = HTTP_200_OK
    /\ recipes[resp.target].tags = {}
    /\ Cardinality(OwnTags(resp.user)) = 2
    /\ \A t \in OwnTags(resp.user) : ~Assigned(t)

(* ------------------------------- C6 ----------------------------------- *)

\* C6: a recipe's owner is fixed at creation to the requesting user and
\* never changes: after any sequence of create, partial update, full update
\* and upload requests by any users, also updates whose payload has a user
\* key naming another user, every recipe is owned by the user who created it.
C6_OwnerFixed == \A r \in DOMAIN recipes : recipes[r].user = createdBy[r]

\* a recipe was updated and has an image, and both users own a recipe
C6_Witness ==
    /\ resp.op = "recipe_update"
    /\ resp.status = HTTP_200_OK
    /\ recipes[resp.target].title = "New title"
    /\ recipes[resp.target].image
    /\ \A u \in Users : \E r \in DOMAIN recipes : recipes[r].user = u

(* ------------------------------- C7 ----------------------------------- *)

PositiveInteger(token) == IntOk(token) /\ IntVal(token) > 0

\* C7: a recipe listing whose tag filter has a comma-separated token that
\* is no positive integer (a non-numeric token, an empty token, zero, a
\* negative number) fails with a validation error, a client error.
C7_MalformedFilterRejected ==
    \A user \in Users, s \in QueryStrings :
       s # <<>> /\ (\E i \in 1..Len(Split(s)) : ~PositiveInteger(Split(s)[i]))
          => LET r == RecipeListResponse(user, Param(s))
             IN  r.status = HTTP_400_BAD_REQUEST /\ r.error = "ValidationError"

(* ------------------------------- C8 ----------------------------------- *)

\* C8: a tag listing whose assigned_only value is anything other than 0, 1
\* or 2 fails with a validation error; with the parameter absent the
\* listing is that of ALL.
C8_InvalidAssignedOnlyRejected ==
    \A user \in Users :
       /\ \A s \in ParamStrings :
             ~(IntOk(s) /\ IntVal(s) \in {0, 1, 2})
                => \A r \in TagListResponses(user, Param(s)) :
                      r.status = HTTP_400_BAD_REQUEST /\ r.error = "ValidationError"
       /\ TagListResponses(user, NoParam) = TagListResponses(user, Param(<<"0">>))

(* ------------------------------- C9 ----------------------------------- *)

\* C9: under any interleaving of concurrent create or update requests of one
\* user that name the same tag, not existing when they start, resolution
\* leaves exactly one tag of that user and name, and the recipe of each of
\* the requests is associated with it.
C9_OneTagPerName ==
    \A p, q \in Procs :
       p # q /\ procs[p].pc = "done" /\ procs[q].pc = "done" /\ procs[p].user = procs[q].user
          => \A n \in procs[p].fresh \cap procs[q].fresh :
                /\ Cardinality(TagsNamed(tags, procs[p].user, n)) = 1
                /\ \A t \in TagsNamed(tags, procs[p].user, n) :
                      t \in recipes[procs[p].recipe].tags /\ t \in recipes[procs[q].recipe].tags

(* ------------------------------- C10 ---------------------------------- *)

OwnAssigned(user) == {t \in OwnTags(user) : \E r \in OwnRecipes(user) : t \in recipes[r].tags}

\* C10: in every state reachable through the API (recipe create, update,
\* delete; tag update, delete) every tag on a recipe is owned by the
\* recipe's owner; so the ASSIGNED and UNASSIGNED tag listings, which look
\* for a recipe of any owner, are those that only the requesting user's
\* recipes give.
C10_TagsOfOwner ==
    Ready =>
       /\ \A r \in DOMAIN recipes : \A t \in recipes[r].tags :
             t \in DOMAIN tags /\ tags[t].user = recipes[r].user
       /\ \A user \in Users :
             /\ \A yes \in TagQuerysets(user, Param(<<"1">>)) : Range(yes) = OwnAssigned(user)
             /\ \A no \in TagQuerysets(user, Param(<<"2">>)) : Range(no) = OwnTags(user) \ OwnAssigned(user)

\* a tag listing was answered while each user owns a recipe with a tag
C10_Witness ==
    /\ resp.op = "tag_list"
    /\ resp.status = HTTP_200_OK
    /\ resp.body # <<>>
    /\ \A u \in Users : \E r \in OwnRecipes(u) : recipes[r].tags # {}

(* ------------------------------- C11 ---------------------------------- *)

\* the collaborator calls of the request, each made after the image
\* reference was persisted
CalledOnceAfterSave == Len(upload.calls) = 1 /\ upload.saved /\ upload.calls[1].saved

\* C11: every upload_image request on a recipe the caller owns that carries
\* an image file ends in exactly one of three responses: a 400 with the
\* serializer errors, nothing persisted and no collaborator call; or, the
\* image persisted and then the collaborator called once, a 500 carrying
\* the error the collaborator reported; or, likewise, a 200 carrying the
\* collaborator's result.
C11_UploadOutcome ==
    (resp.op = "upload_image" /\ upload.owned /\ upload.hasFile) =>
       \/ /\ resp.status = HTTP_400_BAD_REQUEST
          /\ resp.error = "ValidationError"
          /\ ~upload.saved
          /\ upload.calls = <<>>
       \/ /\ CalledOnceAfterSave
          /\ upload.calls[1].outcome.kind = "error"
          /\ resp.status = HTTP_500_INTERNAL_SERVER_ERROR
          /\ resp.error = upload.calls[1].outcome.error
       \/ /\ CalledOnceAfterSave
          /\ upload.calls[1].outcome.kind = "result"
          /\ resp.status = HTTP_200_OK
          /\ resp.body = upload.calls[1].outcome.body

====
